---- MODULE Spec2Model ----
(***************************************************************************)
(* Sandbox lifecycle of open-lovable: the Convex "sandboxes" record store  *)
(* (createSandbox, updateSandboxStatus, updateSandboxActivity,             *)
(* stopSandbox, deleteSandbox with the fileSnapshots and chatHistory it    *)
(* cascades to, getSandboxesToAutoStop), the idle reaper that consumes it, *)
(* and the clone-repository route (POST) that drives a remote E2B sandbox. *)
(***************************************************************************)
EXTENDS Integers, Sequences, FiniteSets, TLC

\* ------------------------------------------------------------------ bounds
MaxSandboxes == 2      \* records ever inserted into the sandboxes table
MaxCalls == 4          \* record-store mutations called by clients
MaxRequests == 2       \* clone requests served
MaxChildren == 2       \* fileSnapshots and chatHistory documents ever inserted
MaxNameLen == 3        \* pieces in a repository name handed to parseGitUrl
MaxDirs == 3           \* directories in a cloned tree the inspection walks

\* --------------------------------------------------------------- constants
GraceWindow == 15 * 60 * 1000          \* 15 minutes, in Date.now() milliseconds

SandboxIds == {"sb1", "sb2"}           \* E2B sandbox ids
UserIds == {"u1"}
ProjectIds == {"p1", "p2"}             \* _ids of the projects table
NoProject == "undefined"               \* v.optional(v.id("projects")) left out
NoUrl == "undefined"                   \* v.optional(v.string()) left out
UrlArgs == {NoUrl, "https://sb"}
Statuses == {"creating", "running", "stopped", "error"}
\* the instants Date.now() is read at: two insert times and the instants
\* one grace window after the first insert, on and just past its deadline
ClockReadings == {0, 2, GraceWindow, GraceWindow + 1}
None == "null"
ProjectKinds == {"plain", "node"}      \* node: the repository holds a package.json
ScriptNames == {"dev", "start", "serve"}
NoLaunch == [outcome |-> "none", command |-> None, processes |-> 0]

VARIABLES
  now,          \* Date.now()
  sandboxes,    \* the "sandboxes" table, in _creationTime order
  nextId,       \* next internal _id the table hands out
  calls,        \* record-store mutations clients have called so far
  lastOp,       \* the last record-store call: its name, argument, time (at)
                \* and outcome: ok, the _id or the _ids it returned, the
                \* error it threw, the documents it deleted, in order
  fileSnapshots, \* the "fileSnapshots" table; sandboxId is a sandboxes _id
  chatHistory,  \* the "chatHistory" table; sandboxId is a sandboxes _id or NoRef
  nextChild,    \* next _id the two dependent tables hand out
  reaperPc,     \* "idle" | "close" | "stop"
  reaperList,   \* documents the sweep's query returned, still to process
  remote,       \* remote sandbox per id: "none" | "alive" | "closed"
  dir,          \* /home/user/<projectName> in each remote sandbox:
                \* "absent" | "plain" | "node" (node: it holds a package.json)
  pc,           \* where the clone route's POST handler stands
  requests,     \* clone requests received so far
  req,          \* the validated request body
  sandbox,      \* the handler's `sandbox`: id of the handle it holds, or None
  cloneExit,    \* how the git clone subprocess ended
  projectInfo,  \* the parsed inspection result
  closeCalls,   \* sandbox.close() calls of this request
  response,     \* the response returned, or None
  scripts,      \* the scripts the package.json in each project directory declares
  installExit,  \* how the npm install of this request ended
  launch,       \* how the launch script of this request ended, and its command
  remoteLog,    \* the remote sandbox calls this request has attempted, in order
  twin,         \* for each accessToken the request might have carried in the
                \* place of its own, the response the handler builds for it
  repo,         \* the repository whose URLs parseGitUrl was last called with
  parsed,       \* what parseGitUrl returned for each form of its URL
  tree,         \* the cloned tree the inspection script was last run on
  inspection,   \* what the inspection script reported for it
  cloneUrl,     \* the URL inside the clone command this request ran, or <<>>
  session,      \* what auth.api.getSession gave this request
  projects,     \* the projects table: the _ids of its documents, and the
                \* _ids it has ever given out
  users,        \* the users table, the oldest document first
  subscriptions, \* the subscriptions table, the oldest document first
  ledgerOp      \* the last createUser or createSubscription call: its
                \* arguments and what it returned or threw

childVars == <<fileSnapshots, chatHistory, nextChild>>
pureVars == <<repo, parsed, tree, inspection>>
ledgerVars == <<projects, users, subscriptions, ledgerOp>>
tableVars == <<sandboxes, nextId, lastOp, childVars>>
reaperVars == <<reaperPc, reaperList>>
routeVars == <<pc, requests, req, sandbox, cloneExit, projectInfo, closeCalls, response,
              scripts, installExit, launch, remoteLog, twin>>
vars == <<now, sandboxes, nextId, calls, lastOp, childVars, reaperPc, reaperList, remote,
          dir, pc, requests, req, sandbox, cloneExit, projectInfo, closeCalls, response,
          scripts, installExit, launch, remoteLog, twin, pureVars, cloneUrl, session, ledgerVars>>

NotFoundError == "Sandbox not found"
NoOp == [op |-> "none", sandboxId |-> "", id |-> 0, ids |-> {}, ok |-> TRUE, at |-> 0,
         error |-> "", deleted |-> <<>>, arg |-> ""]
Called(op, sid, id, ok) ==
  [op |-> op, sandboxId |-> sid, id |-> id, ids |-> {}, ok |-> ok, at |-> now,
   error |-> IF ok THEN "" ELSE NotFoundError, deleted |-> <<>>, arg |-> ""]
NoRef == 0                             \* chatHistory.sandboxId left out

\* ------------------------------------------------------------ record store
\* .withIndex("by_sandbox_id", q => q.eq("sandboxId", sid)).first():
\* the oldest document carrying the id; 0 stands for null.
FirstBySandboxId(sid) ==
  LET S == {i \in 1..Len(sandboxes) : sandboxes[i].sandboxId = sid}
  IN IF S = {} THEN 0 ELSE CHOOSE i \in S : \A j \in S : i <= j

\* the document createSandbox inserts
NewSandboxDoc(id, userId, projectId, sid, url, t) ==
  [_id |-> id, userId |-> userId, projectId |-> projectId, sandboxId |-> sid, url |-> url,
   status |-> "creating", startedAt |-> t, lastActiveAt |-> t,
   autoStopAt |-> t + GraceWindow]

\* a status patch that also writes the start time
StatusPatchRestarts(doc, status, url, t) ==
  [doc EXCEPT !.status = status, !.url = url, !.lastActiveAt = t, !.startedAt = t]

\* ctx.db.patch of updateSandboxStatus
StatusPatch(doc, status, url, t) ==
  [doc EXCEPT !.status = status, !.url = url, !.lastActiveAt = t]

\* a touch that moves lastActiveAt and leaves the old deadline
ActivityPatchStale(doc, t) ==
  [doc EXCEPT !.lastActiveAt = t]

\* a touch that also marks the record running
ActivityPatchResumes(doc, t) ==
  [doc EXCEPT !.status = "running", !.lastActiveAt = t, !.autoStopAt = t + GraceWindow]

\* ctx.db.patch of updateSandboxActivity
ActivityPatch(doc, t) ==
  [doc EXCEPT !.lastActiveAt = t, !.autoStopAt = t + GraceWindow]

\* a stop that records the activity and leaves the status
StopPatchKeepsStatus(doc, t) ==
  [doc EXCEPT !.lastActiveAt = t]

\* ctx.db.patch of stopSandbox
StopPatch(doc, t) ==
  [doc EXCEPT !.status = "stopped", !.lastActiveAt = t]

\* a lookup that misses and returns as if nothing had been asked
NotFoundSilent(op, sid) ==
  /\ FirstBySandboxId(sid) = 0
  /\ lastOp' = Called(op, sid, 0, TRUE)
  /\ UNCHANGED <<sandboxes, nextId, childVars>>

\* if (!sandbox) throw new Error("Sandbox not found")
NotFound(op, sid) ==
  /\ FirstBySandboxId(sid) = 0
  /\ lastOp' = Called(op, sid, 0, FALSE)
  /\ UNCHANGED <<sandboxes, nextId, childVars>>

createSandboxHandler(userId, projectId, sid, url) ==
  /\ sandboxes' = Append(sandboxes, NewSandboxDoc(nextId, userId, projectId, sid, url, now))
  /\ nextId' = nextId + 1
  /\ lastOp' = Called("createSandbox", sid, nextId, TRUE)
  /\ UNCHANGED childVars

updateSandboxStatusHandler(sid, status, url) ==
  \/ NotFound("updateSandboxStatus", sid)
  \/ LET i == FirstBySandboxId(sid) IN
     /\ i # 0
     /\ sandboxes' = [sandboxes EXCEPT ![i] = StatusPatch(@, status, url, now)]
     /\ lastOp' = [Called("updateSandboxStatus", sid, sandboxes[i]._id, TRUE)
                     EXCEPT !.arg = status]
     /\ UNCHANGED <<nextId, childVars>>

updateSandboxActivityHandler(sid) ==
  \/ NotFound("updateSandboxActivity", sid)
  \/ LET i == FirstBySandboxId(sid) IN
     /\ i # 0
     /\ sandboxes' = [sandboxes EXCEPT ![i] = ActivityPatch(@, now)]
     /\ lastOp' = Called("updateSandboxActivity", sid, sandboxes[i]._id, TRUE)
     /\ UNCHANGED <<nextId, childVars>>

\* op names the caller: a client ("stopSandbox") or the reaper ("reaperStop")
stopSandboxHandler(op, sid) ==
  \/ NotFound(op, sid)
  \/ LET i == FirstBySandboxId(sid) IN
     /\ i # 0
     /\ sandboxes' = [sandboxes EXCEPT ![i] = StopPatch(@, now)]
     /\ lastOp' = Called(op, sid, sandboxes[i]._id, TRUE)
     /\ UNCHANGED <<nextId, childVars>>

\* .withIndex("by_status", q => q.eq("status", "running"))
ByStatusRunning == SelectSeq(sandboxes, LAMBDA d : d.status = "running")

\* the filter with lte in the place of lt
getSandboxesToAutoStopLte ==
  SelectSeq(ByStatusRunning, LAMBDA d : d.autoStopAt <= now)

\* .filter(q => q.lt(q.field("autoStopAt"), now)).collect()
getSandboxesToAutoStopHandler ==
  SelectSeq(ByStatusRunning, LAMBDA d : d.autoStopAt < now)

Ids(docs) == {docs[i]._id : i \in 1..Len(docs)}

\* ---- the calls clients make
ClientCall ==
  /\ calls < MaxCalls
  /\ calls' = calls + 1
  /\ UNCHANGED <<pureVars, ledgerVars, cloneUrl, session, now, reaperVars, remote, dir, routeVars>>

createSandbox(userId, projectId, sid, url) ==
  /\ nextId <= MaxSandboxes
  /\ ClientCall
  /\ createSandboxHandler(userId, projectId, sid, url)

updateSandboxStatus(sid, status, url) ==
  ClientCall /\ updateSandboxStatusHandler(sid, status, url)

updateSandboxActivity(sid) ==
  ClientCall /\ updateSandboxActivityHandler(sid)

stopSandbox(sid) ==
  ClientCall /\ stopSandboxHandler("stopSandbox", sid)

\* ---- deleteSandbox and the two tables that depend on a sandbox document
\* the documents of a table, the oldest first, that refer to sandbox _id
Referring(table, id) == SelectSeq(table, LAMBDA d : d.sandboxId = id)
Keeping(table, id) == SelectSeq(table, LAMBDA d : d.sandboxId # id)
Deletes(tableName, docs) == [k \in 1..Len(docs) |-> <<tableName, docs[k]._id>>]
Without(table, i) == [k \in 1..(Len(table) - 1) |-> IF k < i THEN table[k] ELSE table[k + 1]]

\* a delete that removes the snapshots and the sandbox and leaves the chats
deleteSandboxKeepsChats(sid) ==
  LET i == FirstBySandboxId(sid) IN
  /\ i # 0
  /\ fileSnapshots' = Keeping(fileSnapshots, sandboxes[i]._id)
  /\ sandboxes' = Without(sandboxes, i)
  /\ lastOp' = [Called("deleteSandbox", sid, sandboxes[i]._id, TRUE) EXCEPT
                  !.deleted = Deletes("fileSnapshots", Referring(fileSnapshots, sandboxes[i]._id))
                              \o <<<<"sandboxes", sandboxes[i]._id>>>>]
  /\ UNCHANGED <<nextId, chatHistory, nextChild>>

\* the snapshots by_sandbox, then the chats filtered on sandboxId, then the
\* sandbox document, each with ctx.db.delete, all in one transaction
deleteSandboxCascade(sid) ==
  LET i == FirstBySandboxId(sid) IN
  /\ i # 0
  /\ fileSnapshots' = Keeping(fileSnapshots, sandboxes[i]._id)
  /\ chatHistory' = Keeping(chatHistory, sandboxes[i]._id)
  /\ sandboxes' = Without(sandboxes, i)
  /\ lastOp' = [Called("deleteSandbox", sid, sandboxes[i]._id, TRUE) EXCEPT
                  !.deleted = Deletes("fileSnapshots", Referring(fileSnapshots, sandboxes[i]._id))
                              \o Deletes("chatHistory", Referring(chatHistory, sandboxes[i]._id))
                              \o <<<<"sandboxes", sandboxes[i]._id>>>>]
  /\ UNCHANGED <<nextId, nextChild>>

deleteSandboxHandler(sid) ==
  \/ NotFound("deleteSandbox", sid)
  \/ deleteSandboxCascade(sid)

deleteSandbox(sid) ==
  ClientCall /\ deleteSandboxHandler(sid)

\* a document enters fileSnapshots; its projectId is a v.id("projects") and
\* its sandboxId a v.id("sandboxes")
insertFileSnapshot(projectId, ref) ==
  /\ nextChild <= MaxChildren
  /\ fileSnapshots' = Append(fileSnapshots, [_id |-> nextChild, projectId |-> projectId, sandboxId |-> ref])
  /\ nextChild' = nextChild + 1
  /\ UNCHANGED <<pureVars, ledgerVars, cloneUrl, session, now, sandboxes, nextId, lastOp, chatHistory, calls,
                 reaperVars, remote, dir, routeVars>>

\* a document enters chatHistory; its projectId and its sandboxId are optional
insertChatHistory(projectId, ref) ==
  /\ nextChild <= MaxChildren
  /\ chatHistory' = Append(chatHistory, [_id |-> nextChild, projectId |-> projectId, sandboxId |-> ref])
  /\ nextChild' = nextChild + 1
  /\ UNCHANGED <<pureVars, ledgerVars, cloneUrl, session, now, sandboxes, nextId, lastOp, fileSnapshots, calls,
                 reaperVars, remote, dir, routeVars>>

getSandboxesToAutoStop ==
  /\ lastOp' = [Called("getSandboxesToAutoStop", "", 0, TRUE)
                  EXCEPT !.ids = Ids(getSandboxesToAutoStopHandler)]
  /\ UNCHANGED <<pureVars, ledgerVars, cloneUrl, session, now, sandboxes, nextId, childVars, calls, reaperVars, remote, dir, routeVars>>

\* ---- the projects table and deleteProject
\* ctx.db.insert("projects", ...): a new _id, never one given out before
createProject(p) ==
  /\ calls < MaxCalls
  /\ calls' = calls + 1
  /\ p \notin projects.used
  /\ projects' = [live |-> projects.live \cup {p}, used |-> projects.used \cup {p}]
  /\ lastOp' = [Called("createProject", "", 0, TRUE) EXCEPT !.arg = p]
  /\ UNCHANGED <<pureVars, users, subscriptions, ledgerOp, cloneUrl, session, now, sandboxes, nextId,
                 childVars, reaperVars, remote, dir, routeVars>>

\* .withIndex("by_project", q => q.eq("projectId", p)).collect() and a
\* ctx.db.delete for each document found: what is left of the table
NotOfProject(table, p) == SelectSeq(table, LAMBDA d : d.projectId # p)
OfProject(table, p) == SelectSeq(table, LAMBDA d : d.projectId = p)

\* the sandboxes, the fileSnapshots and the chatHistory by_project, then the
\* project document, in one transaction; ctx.db.delete of a project that is
\* not there throws and the transaction writes nothing
deleteProject(p) ==
  /\ calls < MaxCalls
  /\ calls' = calls + 1
  /\ p \in projects.live
  /\ sandboxes' = NotOfProject(sandboxes, p)
  /\ fileSnapshots' = NotOfProject(fileSnapshots, p)
  /\ chatHistory' = NotOfProject(chatHistory, p)
  /\ projects' = [projects EXCEPT !.live = @ \ {p}]
  /\ lastOp' = [Called("deleteProject", "", 0, TRUE) EXCEPT
                  !.arg = p,
                  !.deleted = Deletes("sandboxes", OfProject(sandboxes, p))
                              \o Deletes("fileSnapshots", OfProject(fileSnapshots, p))
                              \o Deletes("chatHistory", OfProject(chatHistory, p))]
  /\ UNCHANGED <<pureVars, users, subscriptions, ledgerOp, cloneUrl, session, now, nextId, nextChild,
                 reaperVars, remote, dir, routeVars>>

\* ---- the subscriptions table and createSubscription
PolarIds == {"sub1", "sub2"}           \* polarSubscriptionId: v.string()
Subscribers == {"u1", "u2"}            \* userId: v.id("users")
\* tier, status, currentPeriodStart and currentPeriodEnd of a call
Plans ==
  {[tier |-> "free", status |-> "active", currentPeriodStart |-> 0, currentPeriodEnd |-> 2],
   [tier |-> "pro", status |-> "active", currentPeriodStart |-> 2, currentPeriodEnd |-> GraceWindow],
   [tier |-> "pro", status |-> "past_due", currentPeriodStart |-> 0, currentPeriodEnd |-> GraceWindow]}
NoPlan == [tier |-> "", status |-> "", currentPeriodStart |-> 0, currentPeriodEnd |-> 0]
NoProfile == [name |-> "undefined", avatar |-> "undefined", githubId |-> "undefined"]
NoLedgerOp ==
  [op |-> "none", ok |-> TRUE, id |-> 0, at |-> 0, error |-> "", userId |-> "",
   key |-> "", plan |-> NoPlan, profile |-> NoProfile]

\* a lookup that never finds the subscription
FirstByPolarIdMisses(pid) == 0

\* .withIndex("by_polar_id", q => q.eq("polarSubscriptionId", pid)).first();
\* 0 stands for null
FirstByPolarId(pid) ==
  LET S == {i \in 1..Len(subscriptions) : subscriptions[i].polarSubscriptionId = pid}
  IN IF S = {} THEN 0 ELSE CHOOSE i \in S : \A j \in S : i <= j

\* ctx.db.patch(existing._id, { tier, status, currentPeriodStart,
\* currentPeriodEnd, updatedAt })
SubscriptionPatch(doc, plan, t) ==
  [doc EXCEPT !.tier = plan.tier, !.status = plan.status,
              !.currentPeriodStart = plan.currentPeriodStart,
              !.currentPeriodEnd = plan.currentPeriodEnd, !.updatedAt = t]

\* the document ctx.db.insert("subscriptions", ...) writes
NewSubscription(id, userId, pid, plan, t) ==
  [_id |-> id, userId |-> userId, polarSubscriptionId |-> pid, tier |-> plan.tier,
   status |-> plan.status, currentPeriodStart |-> plan.currentPeriodStart,
   currentPeriodEnd |-> plan.currentPeriodEnd, createdAt |-> t, updatedAt |-> t]

\* one mutation, run by Convex as one serializable transaction
createSubscription(userId, pid, plan) ==
  /\ calls < MaxCalls
  /\ calls' = calls + 1
  /\ LET i == FirstByPolarId(pid)
         id == IF i # 0 THEN subscriptions[i]._id ELSE Len(subscriptions) + 1
     IN /\ subscriptions' =
             IF i # 0 THEN [subscriptions EXCEPT ![i] = SubscriptionPatch(@, plan, now)]
             ELSE Append(subscriptions, NewSubscription(id, userId, pid, plan, now))
        /\ ledgerOp' = [NoLedgerOp EXCEPT !.op = "createSubscription", !.id = id,
                           !.at = now, !.userId = userId, !.key = pid, !.plan = plan]
  /\ UNCHANGED <<pureVars, projects, users, cloneUrl, session, now, tableVars, reaperVars,
                 remote, dir, routeVars>>

\* ---- the users table and createUser
Emails == {"ann@x.io", "bob@x.io"}
Profiles ==
  {NoProfile, [name |-> "Ann", avatar |-> "undefined", githubId |-> "gh1"]}
UserExistsError == "User with this email already exists"

\* a lookup that never finds the user
FirstByEmailMisses(email) == 0

\* .withIndex("by_email", q => q.eq("email", email)).first(); 0 stands for
\* null
FirstByEmail(email) ==
  LET S == {i \in 1..Len(users) : users[i].email = email}
  IN IF S = {} THEN 0 ELSE CHOOSE i \in S : \A j \in S : i <= j

\* the document ctx.db.insert("users", ...) writes
NewUser(id, email, profile, t) ==
  [_id |-> id, email |-> email, name |-> profile.name, avatar |-> profile.avatar,
   githubId |-> profile.githubId, isActive |-> TRUE, tier |-> "free",
   createdAt |-> t, lastActiveAt |-> t]

\* one mutation, run by Convex as one serializable transaction
createUser(email, profile) ==
  /\ calls < MaxCalls
  /\ calls' = calls + 1
  /\ IF FirstByEmail(email) # 0
     THEN /\ ledgerOp' = [NoLedgerOp EXCEPT !.op = "createUser", !.ok = FALSE, !.at = now,
                             !.error = UserExistsError, !.key = email,
                             !.profile = profile]
          /\ UNCHANGED users
     ELSE /\ users' = Append(users, NewUser(Len(users) + 1, email, profile, now))
          /\ ledgerOp' = [NoLedgerOp EXCEPT !.op = "createUser", !.id = Len(users) + 1,
                             !.at = now, !.key = email, !.profile = profile]
  /\ UNCHANGED <<pureVars, projects, subscriptions, cloneUrl, session, now, tableVars,
                 reaperVars, remote, dir, routeVars>>

\* Date.now() moves on between two calls
Tick ==
  /\ \E t \in ClockReadings : t > now /\ now' = t
  /\ UNCHANGED <<pureVars, ledgerVars, cloneUrl, session, tableVars, calls, reaperVars, remote, dir, routeVars>>

\* ------------------------------------------------------------- idle reaper
\* A sweep: one getSandboxesToAutoStop query, then for each document returned
\* the remote close (best effort: a failed close is logged and passed over)
\* and then stopSandbox(sandboxId).
ReaperQuery ==
  /\ reaperPc = "idle"
  /\ getSandboxesToAutoStopHandler # <<>>
  /\ reaperList' = [i \in 1..Len(getSandboxesToAutoStopHandler) |->
                      [_id |-> getSandboxesToAutoStopHandler[i]._id,
                       sandboxId |-> getSandboxesToAutoStopHandler[i].sandboxId]]
  /\ reaperPc' = "close"
  /\ UNCHANGED <<pureVars, ledgerVars, cloneUrl, session, now, tableVars, calls, remote, dir, routeVars>>

ReaperClose ==
  /\ reaperPc = "close"
  /\ \E closed \in BOOLEAN :
       remote' = IF closed THEN [remote EXCEPT ![Head(reaperList).sandboxId] = "closed"]
                 ELSE remote
  /\ reaperPc' = "stop"
  /\ UNCHANGED <<pureVars, ledgerVars, cloneUrl, session, now, tableVars, calls, reaperList, dir, routeVars>>

ReaperStop ==
  /\ reaperPc = "stop"
  /\ stopSandboxHandler("reaperStop", Head(reaperList).sandboxId)
  /\ reaperList' = Tail(reaperList)
  /\ reaperPc' = IF Tail(reaperList) = <<>> THEN "idle" ELSE "close"
  /\ UNCHANGED <<pureVars, ledgerVars, cloneUrl, session, now, calls, remote, dir, routeVars>>

\* ------------------------------------------------------ clone route (POST)
\* ---- the request body
\* a string is a sequence of pieces; a git URL is its scheme or user part,
\* its host, a separator and its path
HttpsGitHub == <<"https://", "github.com", "/", "acme/widgets">>
ScpGitHub == <<"git@", "github.com", ":", "acme/widgets.git">>
HttpsElsewhere == <<"https://", "example.com", "/", "page">>
NotAUrl == <<"acme/widgets">>
GitUrls == {HttpsGitHub, ScpGitHub, HttpsElsewhere, NotAUrl}
ProjectNames == {"", "widgets"}
AccessTokens == {"tokA", "tokB"}
Bodies ==
  [gitUrl : GitUrls, projectName : ProjectNames, isPrivate : BOOLEAN,
   accessToken : {None, "tokA"}, sandboxId : SandboxIds \cup {None}]
NoBody ==
  [gitUrl |-> <<>>, projectName |-> "", isPrivate |-> FALSE,
   accessToken |-> None, sandboxId |-> None]

\* z.string().url(): new URL(gitUrl) parses, which takes a scheme
IsUrl(u) == u # <<>> /\ Head(u) \in {"https://", "http://", "ftp://"}

\* isValidGitUrl: https://github.com/<owner>/<name> or
\* git@github.com:<owner>/<name>, with or without .git
IsValidGitUrl(u) ==
  /\ Len(u) = 4
  /\ <<u[1], u[2], u[3]>> \in {<<"https://", "github.com", "/">>,
                               <<"git@", "github.com", ":">>}
  /\ u[4] \in {"acme/widgets", "acme/widgets.git"}

\* the paths cloneSchema.parse raises issues for
CloneSchemaIssues(b) ==
  (IF IsUrl(b.gitUrl) THEN {} ELSE {"gitUrl"})
    \cup (IF b.projectName # "" THEN {} ELSE {"projectName"})

\* the URL https://<token>@<host>/<path> of gitUrl:
\* gitUrl.replace('https://', '').split('/') gives the host and the rest
EmbedToken(b) ==
  LET rest == IF Head(b.gitUrl) = "https://" THEN Tail(b.gitUrl) ELSE b.gitUrl
      pathParts == IF Len(rest) >= 2 THEN Tail(Tail(rest)) ELSE <<>>
  IN <<"https://", b.accessToken, "@", Head(rest), "/">> \o pathParts

\* a rewrite for every request that carries a token, private or not
AuthGitUrlAnyToken(b) ==
  IF b.accessToken # None THEN EmbedToken(b) ELSE b.gitUrl

\* let authGitUrl = gitUrl; if (isPrivate && accessToken) { ... }: the
\* tokens of Bodies are non-empty strings, so a token that is there is truthy
AuthGitUrl(b) ==
  IF b.isPrivate /\ b.accessToken # None THEN EmbedToken(b) ELSE b.gitUrl

\* ---- response bodies
NoInfo == [success |-> FALSE, error |-> "", hasPackageJson |-> FALSE]
NullUrl == <<>>                        \* serverUrl: null
SdkMessage == "sandbox unreachable"    \* error.message of a remote call that threw

\* a success body whose message quotes the URL the clone command was given
OkQuotesAuthUrl(b, sid, info, serverUrl) ==
  [status |-> 200, success |-> TRUE, error |-> <<>>, details |-> {},
   sandboxId |-> sid, projectName |-> b.projectName, projectInfo |-> info,
   serverUrl |-> serverUrl,
   message |-> <<"Repository '">> \o AuthGitUrl(b) \o <<"' cloned successfully!">>]

\* NextResponse.json(response) of the success path
Ok(b, sid, info, serverUrl) ==
  [status |-> 200, success |-> TRUE, error |-> <<>>, details |-> {},
   sandboxId |-> sid, projectName |-> b.projectName, projectInfo |-> info,
   serverUrl |-> serverUrl,
   message |-> <<"Repository '">> \o b.gitUrl \o <<"' cloned successfully!">>]

\* NextResponse.json({ error }, { status })
Err(status, text) ==
  [status |-> status, success |-> FALSE, error |-> text, details |-> {},
   sandboxId |-> None, projectName |-> "", projectInfo |-> NoInfo,
   serverUrl |-> NullUrl, message |-> <<>>]

\* the handler's outer catch
OuterCatch(isZodError) ==
  IF isZodError THEN Err(400, <<"Invalid request data">>)
  ELSE Err(500, <<"Internal server error">>)

\* { error: 'Invalid request data', details: error.errors }
ZodErrorBody(b) == [OuterCatch(TRUE) EXCEPT !.details = CloneSchemaIssues(b)]

\* a response that does not read the request body
Respond(r) ==
  /\ response' = r
  /\ twin' = [t \in AccessTokens \cup {None} |-> r]
  /\ pc' = "done"

\* the body b with another accessToken in the place of its own
WithToken(b, t) == [b EXCEPT !.accessToken = t]

\* the 400 of a ZodError raised for the body b
RespondZodError(b) ==
  /\ response' = ZodErrorBody(b)
  /\ twin' = [t \in AccessTokens \cup {None} |-> ZodErrorBody(WithToken(b, t))]
  /\ pc' = "done"

\* the success response
RespondOk(serverUrl) ==
  /\ response' = Ok(req, sandbox, projectInfo, serverUrl)
  /\ twin' = [t \in AccessTokens \cup {None} |->
                Ok(WithToken(req, t), sandbox, projectInfo, serverUrl)]
  /\ pc' = "done"

\* sandbox.close(): it closes the remote sandbox, or it throws
Close(closed) ==
  /\ closeCalls' = closeCalls + 1
  /\ remoteLog' = Append(remoteLog, "close")
  /\ remote' = IF closed THEN [remote EXCEPT ![sandbox] = "closed"] ELSE remote

\* what the route makes of the inspection run: `out` is what came back in
\* checkResult.results[0]?.text, d the project directory the script found
ParseProjectInfo(out, d) ==
  CASE out = "json" /\ d # "absent" ->
         [success |-> TRUE, error |-> "", hasPackageJson |-> (d = "node")]
    [] out = "json" /\ d = "absent" ->
         [success |-> FALSE, error |-> "Project directory not found",
          hasPackageJson |-> FALSE]
    [] out = "noResult" ->
         [success |-> FALSE, error |-> "", hasPackageJson |-> FALSE]
    [] OTHER ->
         [success |-> FALSE, error |-> "Failed to parse project info",
          hasPackageJson |-> FALSE]

\* projectInfo.error || 'Failed to clone repository'
CloneErrorMessage(info) ==
  IF info.error # "" THEN info.error ELSE "Failed to clone repository"

\* a request without a session that is taken on to request.json()
NoSessionGoesOn ==
  /\ pc' = "parse"
  /\ response' = None
  /\ twin' = None

\* if (!session) return 401
NoSession == Respond(Err(401, <<"Unauthorized">>))

\* a request arrives; auth.api.getSession gives a session or null, or throws
Receive ==
  /\ pc \in {"idle", "done"}
  /\ requests < MaxRequests
  /\ requests' = requests + 1
  /\ req' = NoBody
  /\ sandbox' = None
  /\ cloneExit' = "none"
  /\ projectInfo' = NoInfo
  /\ installExit' = "none"
  /\ launch' = NoLaunch
  /\ closeCalls' = 0
  /\ remoteLog' = <<>>
  /\ cloneUrl' = <<>>
  /\ \/ session' = "valid" /\ pc' = "parse" /\ response' = None /\ twin' = None
     \/ session' = "none" /\ NoSession
     \/ session' = "threw" /\ Respond(OuterCatch(FALSE))
  /\ UNCHANGED <<pureVars, ledgerVars, now, tableVars, calls, reaperVars, remote, dir, scripts>>

\* request.json() and cloneSchema.parse over the bodies in `bodies`
ParseBodyFrom(bodies) ==
  /\ pc = "parse"
  /\ \/ \E b \in bodies :
          /\ req' = b
          /\ IF CloneSchemaIssues(b) = {}
             THEN pc' = "acquire" /\ UNCHANGED <<response, twin>>
             ELSE RespondZodError(b)
     \/ Respond(OuterCatch(FALSE)) /\ UNCHANGED req
  /\ UNCHANGED <<pureVars, ledgerVars, cloneUrl, session, now, tableVars, calls, reaperVars, remote, dir, scripts, requests,
                 sandbox, cloneExit, projectInfo, installExit, launch, closeCalls,
                 remoteLog>>

ParseBody == ParseBodyFrom(Bodies)

\* E2BCodeInterpreter.create: attach to req.sandboxId, or create a sandbox
Acquire ==
  /\ pc = "acquire"
  /\ remoteLog' = Append(remoteLog, IF req.sandboxId # None THEN "attach" ELSE "create")
  /\ \/ /\ req.sandboxId # None
        /\ remote[req.sandboxId] = "alive"
        /\ sandbox' = req.sandboxId
        /\ pc' = "clone"
        /\ UNCHANGED <<remote, dir, scripts, response, twin>>
     \/ /\ req.sandboxId = None
        /\ \E s \in SandboxIds :
             /\ remote[s] = "none"
             /\ remote' = [remote EXCEPT ![s] = "alive"]
             /\ dir' = [dir EXCEPT ![s] = "absent"]
             /\ scripts' = [scripts EXCEPT ![s] = {}]
             /\ sandbox' = s
        /\ pc' = "clone"
        /\ UNCHANGED <<response, twin>>
     \/ /\ Respond(Err(500, <<"Failed to create or connect to sandbox">>))
        /\ UNCHANGED <<remote, dir, scripts, sandbox>>
     \/ /\ Respond(OuterCatch(FALSE))
        /\ UNCHANGED <<remote, dir, scripts, sandbox>>
  /\ UNCHANGED <<pureVars, ledgerVars, cloneUrl, session, now, tableVars, calls, reaperVars, requests, req, cloneExit,
                 projectInfo, installExit, launch, closeCalls>>

\* runCode of the clone script: git clone writes the project directory only
\* when it exits 0, and it exits 0 only into a directory that is not there
\* yet; a cloned package.json declares the scripts in one of scriptSets
CloneStepFrom(scriptSets) ==
  /\ pc = "clone"
  /\ remoteLog' = Append(remoteLog, "clone")
  /\ cloneUrl' = AuthGitUrl(req)
  /\ UNCHANGED session
  /\ \/ /\ remote[sandbox] = "alive"
        /\ \/ /\ dir[sandbox] = "absent"
              /\ cloneExit' = "exit0"
              /\ \/ /\ dir' = [dir EXCEPT ![sandbox] = "plain"]
                    /\ UNCHANGED scripts
                 \/ /\ dir' = [dir EXCEPT ![sandbox] = "node"]
                    /\ \E declared \in scriptSets :
                         scripts' = [scripts EXCEPT ![sandbox] = declared]
           \/ /\ cloneExit' \in {"nonzero", "timeout"}
              /\ UNCHANGED <<dir, scripts>>
        /\ pc' = "inspect"
     \/ /\ pc' = "catch"
        /\ UNCHANGED <<cloneExit, dir, scripts>>
  /\ UNCHANGED <<pureVars, ledgerVars, now, tableVars, calls, reaperVars, remote, requests, req, sandbox,
                 projectInfo, installExit, launch, closeCalls, response, twin>>

CloneStep == CloneStepFrom(SUBSET ScriptNames)

\* runCode of the inspection script, the parse of its output and the branch
InspectStep ==
  /\ pc = "inspect"
  /\ remoteLog' = Append(remoteLog, "inspect")
  /\ \/ /\ remote[sandbox] = "alive"
        /\ \E out \in {"json", "noResult", "garbage"} :
             projectInfo' = ParseProjectInfo(out, dir[sandbox])
        /\ pc' = IF ~projectInfo'.success THEN "closeFailed" ELSE "install"
     \/ /\ pc' = "catch"
        /\ UNCHANGED projectInfo
  /\ UNCHANGED <<pureVars, ledgerVars, cloneUrl, session, now, tableVars, calls, reaperVars, remote, dir, scripts, requests,
                 req, sandbox, cloneExit, installExit, launch, closeCalls, response,
                 twin>>

\* if (!projectInfo.success) { await sandbox.close(); return 400 }
CloseFailed ==
  /\ pc = "closeFailed"
  /\ \/ Close(TRUE) /\ Respond(Err(400, <<CloneErrorMessage(projectInfo)>>))
     \/ Close(FALSE) /\ pc' = "catch" /\ UNCHANGED <<response, twin>>
  /\ UNCHANGED <<pureVars, ledgerVars, cloneUrl, session, now, tableVars, calls, reaperVars, dir, scripts, requests, req,
                 sandbox, cloneExit, projectInfo, installExit, launch>>

\* an install step that runs npm install whatever the inspection found
InstallStepAlways ==
  /\ pc = "install"
  /\ remoteLog' = Append(remoteLog, "install")
  /\ \/ /\ remote[sandbox] = "alive"
        /\ installExit' \in {"exit0", "nonzero", "timeout"}
        /\ pc' = "launch"
     \/ /\ installExit' = "threw"
        /\ pc' = "catch"
  /\ UNCHANGED <<pureVars, ledgerVars, cloneUrl, session, now, tableVars, calls, reaperVars, remote, dir, scripts, requests,
                 req, sandbox, cloneExit, projectInfo, launch, closeCalls, response,
                 twin>>

\* if (projectInfo.hasPackageJson) runCode of npm install: the script prints
\* how the install ended and the route goes on; a runCode that throws is
\* caught by the inner catch
InstallStep ==
  /\ pc = "install"
  /\ \/ /\ ~projectInfo.hasPackageJson
        /\ installExit' = "skipped"
        /\ pc' = "launch"
        /\ UNCHANGED remoteLog
     \/ /\ projectInfo.hasPackageJson
        /\ remoteLog' = Append(remoteLog, "install")
        /\ \/ /\ remote[sandbox] = "alive"
              /\ installExit' \in {"exit0", "nonzero", "timeout"}
              /\ pc' = "launch"
           \/ /\ installExit' = "threw"
              /\ pc' = "catch"
  /\ UNCHANGED <<pureVars, ledgerVars, cloneUrl, session, now, tableVars, calls, reaperVars, remote, dir, scripts, requests,
                 req, sandbox, cloneExit, projectInfo, launch, closeCalls, response,
                 twin>>

\* a choice that looks for start before dev
DevCommandStartFirst(declared) ==
  IF "start" \in declared THEN "npm start"
  ELSE IF "dev" \in declared THEN "npm run dev"
  ELSE IF "serve" \in declared THEN "npm run serve"
  ELSE None

\* the launch script's choice among the declared scripts
DevCommand(declared) ==
  IF "dev" \in declared THEN "npm run dev"
  ELSE IF "start" \in declared THEN "npm start"
  ELSE IF "serve" \in declared THEN "npm run serve"
  ELSE None

\* how the launch script ends for the scripts the manifest declares:
\* the one subprocess.Popen makes a process unless it raises
LaunchResults(declared) ==
  {[outcome |-> "readError", command |-> None, processes |-> 0]}
    \cup (IF DevCommand(declared) = None
          THEN {[outcome |-> "noScript", command |-> None, processes |-> 0]}
          ELSE {[outcome |-> o, command |-> DevCommand(declared),
                 processes |-> IF o = "launchError" THEN 0 ELSE 1] :
                  o \in {"started", "died", "launchError"}})

\* `https://${sandbox.getHostname(3000)}` || ...: a template string is truthy
ServerUrl(s) == <<"https://", "3000-", s>>

\* startDevServer and the success response
startDevServer ==
  /\ pc = "launch"
  /\ \/ /\ projectInfo.hasPackageJson
        /\ remote[sandbox] = "alive"
        /\ remoteLog' = Append(remoteLog, "launch")
        /\ launch' \in LaunchResults(scripts[sandbox])
        /\ \/ RespondOk(ServerUrl(sandbox))
           \/ RespondOk(NullUrl)
     \/ /\ projectInfo.hasPackageJson
        /\ remoteLog' = Append(remoteLog, "launch")
        /\ launch' = [outcome |-> "threw", command |-> None, processes |-> 0]
        /\ RespondOk(NullUrl)
     \/ /\ ~projectInfo.hasPackageJson
        /\ UNCHANGED remoteLog
        /\ launch' = [outcome |-> "noManifest", command |-> None, processes |-> 0]
        /\ RespondOk(NullUrl)
  /\ UNCHANGED <<pureVars, ledgerVars, cloneUrl, session, now, tableVars, calls, reaperVars, remote, dir, scripts, requests,
                 req, sandbox, cloneExit, projectInfo, installExit, closeCalls>>

\* an inner catch that answers without closing the sandbox
CatchCloneNoClose ==
  /\ pc = "catch"
  /\ Respond(Err(500, <<"Clone operation failed: ", SdkMessage>>))
  /\ UNCHANGED <<pureVars, ledgerVars, cloneUrl, session, now, tableVars, calls, reaperVars, remote, dir, scripts, requests,
                 req, sandbox, cloneExit, projectInfo, installExit, launch,
                 closeCalls, remoteLog>>

\* the inner catch: await sandbox.close(), then 500
CatchClone ==
  /\ pc = "catch"
  /\ \/ Close(TRUE) /\ Respond(Err(500, <<"Clone operation failed: ", SdkMessage>>))
     \/ Close(FALSE) /\ Respond(OuterCatch(FALSE))
  /\ UNCHANGED <<pureVars, ledgerVars, cloneUrl, session, now, tableVars, calls, reaperVars, dir, scripts, requests, req,
                 sandbox, cloneExit, projectInfo, installExit, launch>>

\* -------------------------------------------------------------- parseGitUrl
\* a URL is a sequence of pieces; "/", "?", ".", ":" and "@" are pieces of
\* their own, so a piece with letters in it holds none of them
HttpsPrefix == <<"https:", "/", "/", "github", ".", "com", "/">>
SshPrefix == <<"git", "@", "github", ".", "com", ":">>
DotGit == <<".", "git">>
UrlForms == {"https", "https.git", "ssh", "ssh.git"}
NoRepo == [ok |-> FALSE, owner |-> <<>>, name |-> <<>>]     \* return null

\* the URL of the repository owner/name in form f
FormUrl(f, owner, name) ==
  (IF f \in {"https", "https.git"} THEN HttpsPrefix ELSE SshPrefix)
    \o owner \o <<"/">> \o name
    \o (IF f \in {"https.git", "ssh.git"} THEN DotGit ELSE <<>>)

\* cleanUrl.endsWith('.git')
EndsWithDotGit(u) == Len(u) >= 2 /\ SubSeq(u, Len(u) - 1, Len(u)) = DotGit

\* if (cleanUrl.endsWith('.git')) cleanUrl = cleanUrl.slice(0, -4)
CleanUrl(u) == IF EndsWithDotGit(u) THEN SubSeq(u, 1, Len(u) - 2) ELSE u

\* the longest run of pieces of u from position from on that are not in stop
Run(u, from, stop) ==
  CHOOSE n \in 0..Len(u) :
    /\ from + n - 1 <= Len(u)
    /\ \A i \in 0..(n - 1) : u[from + i] \notin stop
    /\ (from + n > Len(u) \/ u[from + n] \in stop)

\* prefix([^\/]+)\/([^\/\?]+) matches u at position k
MatchesAt(u, k, prefix) ==
  LET p == k + Len(prefix)
      q == p + Run(u, p, {"/"})
  IN /\ k + Len(prefix) - 1 <= Len(u)
     /\ SubSeq(u, k, k + Len(prefix) - 1) = prefix
     /\ p <= Len(u)
     /\ q > p
     /\ q <= Len(u)
     /\ u[q] = "/"
     /\ q + 1 <= Len(u)
     /\ Run(u, q + 1, {"/", "?"}) >= 1

\* u.match(/prefix([^\/]+)\/([^\/\?]+)/): the leftmost match, or null
Match(u, prefix) ==
  LET K == {k \in 1..Len(u) : MatchesAt(u, k, prefix)}
  IN IF K = {} THEN NoRepo
     ELSE LET k == CHOOSE x \in K : \A y \in K : x <= y
              p == k + Len(prefix)
              q == p + Run(u, p, {"/"})
          IN [ok |-> TRUE,
              owner |-> SubSeq(u, p, q - 1),
              name |-> SubSeq(u, q + 1, q + Run(u, q + 1, {"/", "?"}))]

\* a parse that matches the URL as it was given, suffix and all
parseGitUrlKeepsSuffix(u) ==
  IF Match(u, HttpsPrefix).ok THEN Match(u, HttpsPrefix)
  ELSE Match(u, SshPrefix)

parseGitUrl(u) ==
  IF Match(CleanUrl(u), HttpsPrefix).ok THEN Match(CleanUrl(u), HttpsPrefix)
  ELSE Match(CleanUrl(u), SshPrefix)

\* repository owners and names: letters, digits, ".", "-" and "_"; a name
\* on GitHub does not end in ".git"
Owners == {<<"acme">>, <<"a", "-", "b">>}
NamePieces == {"widgets", ".", "git", "-"}
Names ==
  {n \in UNION {[1..l -> NamePieces] : l \in 1..MaxNameLen} : ~EndsWithDotGit(n)}

\* parseGitUrl is called with each form of the URL of owner/name; a call
\* reads nothing but its argument, so one repository is followed at a time
parseGitUrlForms(owner, name) ==
  /\ repo.name = <<>>
  /\ repo' = [owner |-> owner, name |-> name]
  /\ parsed' = [f \in UrlForms |-> parseGitUrl(FormUrl(f, owner, name))]
  /\ UNCHANGED <<tree, inspection, ledgerVars, cloneUrl, session, now, tableVars, calls, reaperVars, remote, dir,
                 routeVars>>

\* ------------------------------------------- the inspection script's walk
WalkCap == 100                         \* if len(files) >= 100: break
ManifestCap == 50                      \* "files": files[:50]
NoInspection == [fileCount |-> 0, files |-> 0]
\* a cloned tree, .git left out: the number of files in each directory, in
\* the order os.walk visits the directories, the project directory first
FileCounts == {0, 30, 50, 70, 120}
Trees == UNION {[1..l -> FileCounts] : l \in 1..MaxDirs}

\* len(files) when the walk ends: n files collected before directory k; the
\* files of a directory are all appended before the length is looked at
RECURSIVE Collected(_, _, _)
Collected(t, k, n) ==
  IF k > Len(t) THEN n
  ELSE IF n + t[k] >= WalkCap THEN n + t[k]
  ELSE Collected(t, k + 1, n + t[k])

\* "fileCount": len(files), "files": files[:50] (the number of entries)
Inspect(t) ==
  [fileCount |-> Collected(t, 1, 0),
   files |-> IF Collected(t, 1, 0) <= ManifestCap THEN Collected(t, 1, 0)
             ELSE ManifestCap]

\* the inspection script runs on the tree t; a run reads nothing but the
\* tree, so one tree is followed at a time
inspectTree(t) ==
  /\ tree = <<>>
  /\ tree' = t
  /\ inspection' = Inspect(t)
  /\ UNCHANGED <<repo, parsed, ledgerVars, cloneUrl, session, now, tableVars, calls, reaperVars, remote, dir,
                 routeVars>>

\* ------------------------------------------------------------ specification
Init ==
  /\ now = 0
  /\ sandboxes = <<>>
  /\ nextId = 1
  /\ calls = 0
  /\ lastOp = NoOp
  /\ fileSnapshots = <<>>
  /\ chatHistory = <<>>
  /\ nextChild = 1
  /\ reaperPc = "idle"
  /\ reaperList = <<>>
  /\ remote = [s \in SandboxIds |-> "none"]
  /\ dir = [s \in SandboxIds |-> "absent"]
  /\ pc = "idle"
  /\ requests = 0
  /\ req = NoBody
  /\ sandbox = None
  /\ cloneExit = "none"
  /\ projectInfo = NoInfo
  /\ closeCalls = 0
  /\ response = None
  /\ scripts = [s \in SandboxIds |-> {}]
  /\ installExit = "none"
  /\ launch = NoLaunch
  /\ remoteLog = <<>>
  /\ twin = None
  /\ repo = [owner |-> <<>>, name |-> <<>>]
  /\ parsed = [f \in UrlForms |-> NoRepo]
  /\ tree = <<>>
  /\ inspection = NoInspection
  /\ cloneUrl = <<>>
  /\ session = "none"
  /\ projects = [live |-> {}, used |-> {}]
  /\ users = <<>>
  /\ subscriptions = <<>>
  /\ ledgerOp = NoLedgerOp

\* the mutations clients call, with url arguments drawn from urls
Clients(urls) ==
  \/ \E u \in UserIds, s \in SandboxIds, url \in urls : createSandbox(u, NoProject, s, url)
  \/ \E s \in SandboxIds, st \in Statuses, url \in urls : updateSandboxStatus(s, st, url)
  \/ \E s \in SandboxIds : updateSandboxActivity(s)
  \/ \E s \in SandboxIds : stopSandbox(s)

ClientStore == Clients(UrlArgs)

Reaper ==
  \/ ReaperQuery
  \/ ReaperClose
  \/ ReaperStop

Route ==
  \/ Receive
  \/ ParseBody
  \/ Acquire
  \/ CloneStep
  \/ InspectStep
  \/ CloseFailed
  \/ InstallStep
  \/ startDevServer
  \/ CatchClone

\* the record store under its clients
NextStore ==
  \/ ClientStore
  \/ getSandboxesToAutoStop
  \/ Tick

SpecStore == Init /\ [][NextStore]_vars

\* the record store and its query under clients that pass no url
NextLifecycle ==
  \/ Clients({NoUrl})
  \/ getSandboxesToAutoStop
  \/ Tick

SpecLifecycle == Init /\ [][NextLifecycle]_vars

\* documents are inserted for sandbox documents that are in the table; a
\* v.id("projects") names the table and is not looked up on insert
SomeProject == CHOOSE p \in ProjectIds : TRUE
Dependents ==
  \/ \E i \in 1..Len(sandboxes) : insertFileSnapshot(SomeProject, sandboxes[i]._id)
  \/ \E i \in 1..Len(sandboxes) : insertChatHistory(NoProject, sandboxes[i]._id)
  \/ insertChatHistory(NoProject, NoRef)

\* the record store with deleteSandbox and the tables it cascades to
NextCascade ==
  \/ Clients({NoUrl})
  \/ \E s \in SandboxIds : deleteSandbox(s)
  \/ Dependents

SpecCascade == Init /\ [][NextCascade]_vars

\* the store of projects: sandboxes are created in a project or in none, and
\* documents that refer to a sandbox in the table are inserted with the
\* projectId the schema lets them carry
NextProjects ==
  \/ \E p \in ProjectIds : createProject(p)
  \/ \E u \in UserIds, p \in projects.live \cup {NoProject}, s \in SandboxIds :
       createSandbox(u, p, s, NoUrl)
  \/ \E p \in projects.live, i \in 1..Len(sandboxes) :
       insertFileSnapshot(p, sandboxes[i]._id)
  \/ \E p \in projects.live \cup {NoProject}, i \in 1..Len(sandboxes) :
       insertChatHistory(p, sandboxes[i]._id)
  \/ \E p \in projects.live \cup {NoProject} : insertChatHistory(p, NoRef)
  \/ \E p \in ProjectIds : deleteProject(p)

SpecProjects == Init /\ [][NextProjects]_vars

\* createSubscription called by any number of clients
NextSubscriptions ==
  \/ \E u \in Subscribers, pid \in PolarIds, plan \in Plans : createSubscription(u, pid, plan)
  \/ Tick

SpecSubscriptions == Init /\ [][NextSubscriptions]_vars

\* createUser called by any number of clients
NextUsers ==
  \/ \E email \in Emails, profile \in Profiles : createUser(email, profile)
  \/ Tick

SpecUsers == Init /\ [][NextUsers]_vars

\* parseGitUrl over the URLs of the repositories in Owners and Names
NextParse == \E owner \in Owners, name \in Names : parseGitUrlForms(owner, name)

SpecParse == Init /\ [][NextParse]_vars

\* the inspection script over the trees in Trees
NextWalk == \E t \in Trees : inspectTree(t)

SpecWalk == Init /\ [][NextWalk]_vars

\* the record store under its clients and the reaper; the sweep reads no
\* url, so the clients here pass none
NextReaper ==
  \/ Clients({NoUrl})
  \/ Tick
  \/ Reaper

SpecReaper == Init /\ [][NextReaper]_vars

\* the clone route alone
SpecRoute == Init /\ [][Route]_vars

\* a client that keeps one record for each sandbox the provider has issued
RecordClient ==
  \E s \in SandboxIds :
    /\ remote[s] # "none"
    /\ \/ \E u \in UserIds : FirstBySandboxId(s) = 0 /\ createSandbox(u, NoProject, s, NoUrl)
       \/ \E st \in Statuses, url \in UrlArgs : updateSandboxStatus(s, st, url)
       \/ updateSandboxActivity(s)
       \/ stopSandbox(s)

\* requests to clone one public repository whose package.json declares dev
PublicBodies ==
  {b \in Bodies : /\ b.gitUrl = HttpsGitHub
                  /\ b.projectName = "widgets"
                  /\ ~b.isPrivate
                  /\ b.accessToken = None}

RouteOfPublicClones ==
  \/ Receive
  \/ ParseBodyFrom(PublicBodies)
  \/ Acquire
  \/ CloneStepFrom({{"dev"}})
  \/ InspectStep
  \/ CloseFailed
  \/ InstallStep
  \/ startDevServer
  \/ CatchClone

\* the clone route next to the clients of the record store
NextRouteStore ==
  \/ RouteOfPublicClones
  \/ RecordClient

SpecRouteStore == Init /\ [][NextRouteStore]_vars

\* everything at once: the store, its clients, the reaper and the route
Next ==
  \/ ClientStore
  \/ getSandboxesToAutoStop
  \/ Tick
  \/ Reaper
  \/ Route

Spec == Init /\ [][Next]_vars

\* the reaper is scheduled again and again, and a sweep it began goes on
FairReaper ==
  SpecReaper /\ WF_vars(ReaperQuery) /\ WF_vars(ReaperClose) /\ WF_vars(ReaperStop)

\* ------------------------------------------------------------------ claims
Docs == 1..Len(sandboxes)
DocOf(id) == CHOOSE i \in Docs : sandboxes[i]._id = id
Expired(i) ==
  i \in Docs /\ sandboxes[i].status = "running" /\ sandboxes[i].autoStopAt < now
\* the step is the reaper's stopSandbox call
ReaperStopStep == reaperPc = "stop" /\ reaperPc' # "stop"

\* C1: in every reachable state of the store every sandbox record has
\* autoStopAt >= lastActiveAt + 15 minutes.
C1_AutoStopCoversGrace ==
  \A i \in Docs : sandboxes[i].autoStopAt >= sandboxes[i].lastActiveAt + GraceWindow

\* C2: right after a createSandbox or updateSandboxActivity call that
\* succeeded, the record it wrote has autoStopAt - lastActiveAt equal to the
\* 15 minute grace window, and lastActiveAt is the call's own Date.now().
C2_GraceAfterCreateOrTouch ==
  (lastOp.op \in {"createSandbox", "updateSandboxActivity"} /\ lastOp.ok) =>
    /\ \E i \in Docs : sandboxes[i]._id = lastOp.id
    /\ sandboxes[DocOf(lastOp.id)].lastActiveAt = lastOp.at
    /\ sandboxes[DocOf(lastOp.id)].autoStopAt
         - sandboxes[DocOf(lastOp.id)].lastActiveAt = GraceWindow

\* a touch landed on a record whose deadline had fallen behind its activity
C2_Witness ==
  /\ lastOp.op = "updateSandboxActivity"
  /\ lastOp.ok
  /\ sandboxes[DocOf(lastOp.id)].startedAt < lastOp.at
  /\ sandboxes[DocOf(lastOp.id)].autoStopAt = lastOp.at + GraceWindow

Rank(status) ==
  CASE status = "creating" -> 1 [] status = "running" -> 2 [] OTHER -> 3
Forward(a, b) ==
  \/ a = b
  \/ b = "error"
  \/ a # "error" /\ b # "error" /\ Rank(a) < Rank(b)

\* C3: a record's status only moves forward along creating -> running ->
\* stopped, or into error; stopped or error never becomes creating or running.
C3_StatusOnlyForward ==
  [][\A i \in Docs : Forward(sandboxes[i].status, sandboxes'[i].status)]_vars

\* C4: the status error is terminal: no later call changes it.
C4_ErrorTerminal ==
  [][\A i \in Docs : sandboxes[i].status = "error" => sandboxes'[i].status = "error"]_vars

\* C5: a reaper sweep never changes a record whose status is not running.
C5_ReaperLeavesNonRunning ==
  [][ReaperStopStep =>
       \A i \in Docs : sandboxes[i].status # "running" => sandboxes'[i] = sandboxes[i]]_vars

\* C6: getSandboxesToAutoStop evaluated at time T returns exactly the records
\* with status running and autoStopAt strictly less than T.
C6_ExpiredExactly ==
  lastOp.op = "getSandboxesToAutoStop" =>
    lastOp.ids = {sandboxes[i]._id : i \in
                    {j \in Docs : /\ sandboxes[j].status = "running"
                                  /\ sandboxes[j].autoStopAt < lastOp.at}}

\* the query ran at T over two running records with deadlines T-1 and T+1
\* and returned the first alone
C6_Witness ==
  /\ lastOp.op = "getSandboxesToAutoStop"
  /\ \E i, j \in Docs :
       /\ sandboxes[i].status = "running"
       /\ sandboxes[j].status = "running"
       /\ sandboxes[i].autoStopAt = lastOp.at - 1
       /\ sandboxes[j].autoStopAt = lastOp.at + 1
       /\ lastOp.ids = {sandboxes[i]._id}

\* C7: the reaper's stop marks the expired record it was called for stopped,
\* whether or not the remote close before it succeeded, and under fair
\* scheduling of the sweeps no record stays running and past its deadline
\* for ever.
C7_ExpiredGetStopped ==
  /\ [][ReaperStopStep =>
          \A i \in Docs : sandboxes[i]._id = Head(reaperList)._id =>
                            sandboxes'[i].status = "stopped"]_vars
  /\ \A i \in 1..MaxSandboxes : Expired(i) ~> ~Expired(i)

\* the reaper stopped a record although the close of its sandbox had failed
C7_Witness ==
  /\ lastOp.op = "reaperStop"
  /\ lastOp.ok
  /\ sandboxes[DocOf(lastOp.id)].status = "stopped"
  /\ sandboxes[DocOf(lastOp.id)].autoStopAt < lastOp.at
  /\ remote[lastOp.sandboxId] # "closed"

\* C8: a clone whose git command exits non-zero or times out is answered
\* with a failure, also when the target directory exists.
C8_FailedCloneIsFailure ==
  (pc = "done" /\ cloneExit \in {"nonzero", "timeout"}) => ~response.success

\* C9: when a clone pipeline whose clone step failed returns, no record of
\* that sandboxId has status running.
C9_NoRunningAfterFailedClone ==
  [][(pc # "done" /\ pc' = "done" /\ cloneExit' \in {"nonzero", "timeout"}) =>
       \A i \in Docs : sandboxes'[i].sandboxId = sandbox' =>
                         sandboxes'[i].status # "running"]_vars

\* C10: every failure response given after the sandbox handle was acquired
\* comes after a sandbox.close() call of that request.
C10_CloseBeforeError ==
  (pc = "done" /\ sandbox # None /\ ~response.success) => closeCalls >= 1

\* a failed inspection in a reused sandbox: closed once, answered 400
C10_Witness ==
  /\ pc = "done"
  /\ sandbox # None
  /\ req.sandboxId = sandbox
  /\ response.status = 400
  /\ closeCalls = 1

\* ------------------------------------------------- claims: NotFound, delete
Range(seq) == {seq[k] : k \in 1..Len(seq)}
\* the step is a mutation a client called
StoreCallStep == calls' = calls + 1
LookupOps == {"updateSandboxStatus", "updateSandboxActivity", "stopSandbox", "deleteSandbox"}

\* C17: updateSandboxStatus, updateSandboxActivity, stopSandbox and
\* deleteSandbox called with a sandboxId no record carries fail with the
\* error 'Sandbox not found' and leave all three tables as they were.
C17_NotFoundExplicit ==
  [][(/\ StoreCallStep
      /\ lastOp'.op \in LookupOps
      /\ FirstBySandboxId(lastOp'.sandboxId) = 0) =>
       /\ ~lastOp'.ok
       /\ lastOp'.error = NotFoundError
       /\ sandboxes' = sandboxes
       /\ fileSnapshots' = fileSnapshots
       /\ chatHistory' = chatHistory]_vars

\* a deleteSandbox missed while all three tables held documents
C17_Witness ==
  /\ lastOp.op = "deleteSandbox"
  /\ ~lastOp.ok
  /\ lastOp.error = NotFoundError
  /\ sandboxes # <<>>
  /\ fileSnapshots # <<>>
  /\ chatHistory # <<>>

DeleteStep == StoreCallStep /\ lastOp'.op = "deleteSandbox" /\ lastOp'.ok
IsLast(seq, x) == seq # <<>> /\ seq[Len(seq)] = x

\* C18: after deleteSandbox the sandbox document it found is gone and no
\* fileSnapshots or chatHistory document refers to its _id; the documents
\* that referred to it were all deleted, and before the sandbox document;
\* documents that refer to other sandboxes, and the other sandbox
\* documents, are as they were.
C18_DeleteCascades ==
  /\ []((lastOp.op = "deleteSandbox" /\ lastOp.ok) =>
          /\ \A d \in Range(sandboxes) : d._id # lastOp.id
          /\ \A d \in Range(fileSnapshots) \cup Range(chatHistory) : d.sandboxId # lastOp.id
          /\ IsLast(lastOp.deleted, <<"sandboxes", lastOp.id>>)
          /\ \A k \in 1..(Len(lastOp.deleted) - 1) :
                lastOp.deleted[k][1] \in {"fileSnapshots", "chatHistory"})
  /\ [][DeleteStep =>
          /\ \A d \in Range(fileSnapshots) :
                IF d.sandboxId = lastOp'.id
                THEN <<"fileSnapshots", d._id>> \in Range(lastOp'.deleted)
                ELSE d \in Range(fileSnapshots')
          /\ \A d \in Range(chatHistory) :
                IF d.sandboxId = lastOp'.id
                THEN <<"chatHistory", d._id>> \in Range(lastOp'.deleted)
                ELSE d \in Range(chatHistory')
          /\ \A d \in Range(sandboxes) : d._id # lastOp'.id => d \in Range(sandboxes')]_vars

\* a delete took a chat with its sandbox and left another sandbox with its
\* own dependent
C18_Witness ==
  /\ lastOp.op = "deleteSandbox"
  /\ lastOp.ok
  /\ \E k \in 1..Len(lastOp.deleted) : lastOp.deleted[k][1] = "chatHistory"
  /\ \E d \in Range(sandboxes) :
       \E c \in Range(fileSnapshots) \cup Range(chatHistory) : c.sandboxId = d._id

\* C19: in every reachable state of the store at most one sandbox record
\* carries a given sandboxId.
C19_SandboxIdUnique ==
  \A i, j \in Docs : sandboxes[i].sandboxId = sandboxes[j].sandboxId => i = j

\* ------------------------------------------------------ claims: clone route
\* the body is not what the contract of the clone step takes
Malformed(b) == ~IsValidGitUrl(b.gitUrl) \/ b.projectName = ""

\* C11: a request whose gitUrl is not a repository URL of the hosting
\* provider, or whose projectName is empty, is answered 400 and no remote
\* sandbox call was made for it.
C11_MalformedRejected ==
  (pc = "done" /\ req # NoBody /\ Malformed(req)) =>
    (response.status = 400 /\ remoteLog = <<>>)

\* C12: a request with isPrivate true and no accessToken is answered with
\* a 4xx and no remote sandbox call was attempted for it.
C12_PrivateNeedsToken ==
  (pc = "done" /\ req.isPrivate /\ req.accessToken = None) =>
    (response.status \in 400..499 /\ remoteLog = <<>>)

\* C13: a success response for a project whose package.json declares none
\* of dev, start, serve has serverUrl null.
C13_NoScriptNoUrl ==
  (/\ pc = "done"
   /\ response.success
   /\ projectInfo.hasPackageJson
   /\ DevCommand(scripts[sandbox]) = None) =>
    response.serverUrl = NullUrl

\* C14: with no package.json flag in projectInfo the install step makes no
\* remote call and goes on to the launch, each time it is taken.
C14_BootstrapSkips ==
  [][(pc = "install" /\ ~projectInfo.hasPackageJson /\ pc' # "install") =>
       /\ remoteLog' = remoteLog
       /\ remote' = remote
       /\ closeCalls' = closeCalls
       /\ pc' = "launch"]_vars

\* the second request found, in the sandbox it reused, the same directory
\* without a manifest, and its install step made no call either
C14_Witness ==
  /\ requests = 2
  /\ pc = "launch"
  /\ req.sandboxId = sandbox
  /\ dir[sandbox] = "plain"
  /\ installExit = "skipped"
  /\ remoteLog = <<"attach", "clone", "inspect">>

\* C15: when the install exits non-zero, times out or its remote call
\* throws, the route still goes on to the launch, does not close the
\* sandbox and answers success.
C15_BootstrapNeverEscalates ==
  (pc = "done" /\ installExit \in {"nonzero", "timeout", "threw"}) =>
    /\ launch.outcome # "none"
    /\ closeCalls = 0
    /\ response.success

\* C16: when the launch fails (the manifest cannot be read, the launch
\* throws, the process dies before the liveness check) the response is a
\* success with serverUrl null and the sandbox is not closed.
C16_LaunchFailureNullUrl ==
  (pc = "done" /\ launch.outcome \in {"readError", "launchError", "died", "threw"}) =>
    /\ response.success
    /\ response.serverUrl = NullUrl
    /\ closeCalls = 0

\* the pieces of text a response body is made of
Pieces(r) ==
  Range(r.error) \cup Range(r.message) \cup Range(r.serverUrl) \cup r.details
    \cup {r.sandboxId, r.projectName, r.projectInfo.error}
\* sub occurs in text
Contains(text, sub) ==
  \E k \in 0..(Len(text) - Len(sub)) : \A n \in 1..Len(sub) : text[k + n] = sub[n]

\* C20: no response body holds the accessToken or the clone URL with the
\* credential in it, and the body is the one the handler builds for the
\* same request with any other accessToken and the same outcome.
C20_NoCredentialInResponse ==
  pc = "done" =>
    /\ \A t \in AccessTokens \cup {None} : twin[t] = response
    /\ req.accessToken # None =>
         /\ req.accessToken \notin Pieces(response)
         /\ req.isPrivate =>
              /\ ~Contains(response.message, AuthGitUrl(req))
              /\ ~Contains(response.error, AuthGitUrl(req))

\* a private clone with a token went through and was answered success
C20_Witness ==
  /\ pc = "done"
  /\ req.isPrivate
  /\ req.accessToken = "tokA"
  /\ cloneExit = "exit0"
  /\ response.success
  /\ Contains(response.message, req.gitUrl)

\* ---------------------------------------------- claims: parseGitUrl, walk
\* C21: for the URLs of one repository parseGitUrl returns the same owner
\* and name from the HTTPS and the SSH form, with and without the .git
\* suffix, and they are the owner and name the URLs were made of.
C21_ParseAgreesAcrossForms ==
  repo.name # <<>> =>
    \A f \in UrlForms :
      /\ parsed[f].ok
      /\ parsed[f].owner = repo.owner
      /\ parsed[f].name = repo.name
      /\ \A g \in UrlForms : parsed[g] = parsed[f]

\* the four URLs of a repository with dots and "git" inside its name
C21_Witness ==
  /\ repo.owner = <<"a", "-", "b">>
  /\ repo.name = <<"git", ".", "widgets">>
  /\ parsed["ssh.git"].name = <<"git", ".", "widgets">>
  /\ parsed["https"].owner = <<"a", "-", "b">>

\* C27: the inspection reports at most 50 entries in files and a fileCount
\* of at most 100, whatever the tree.
C27_WalkCaps ==
  inspection.files <= ManifestCap /\ inspection.fileCount <= WalkCap

\* ------------------------------------- claims: the pipeline and the records
\* the step is the route's attach to a sandbox the provider has closed
StaleAttachStep ==
  /\ pc = "acquire"
  /\ pc' = "done"
  /\ req.sandboxId # None
  /\ remote[req.sandboxId] = "closed"

\* C22: when the request names a sandbox that is already closed, the
\* attach is answered with an error and every record of that sandboxId has
\* status error afterwards.
C22_StaleAttachMarksError ==
  [][StaleAttachStep =>
       /\ ~response'.success
       /\ \A i \in 1..Len(sandboxes') :
            sandboxes'[i].sandboxId = req.sandboxId => sandboxes'[i].status = "error"]_vars

\* C23: when the route answers success, a record of the returned sandboxId
\* with status running is in the store.
C23_SuccessRecordsRunning ==
  [][(pc # "done" /\ pc' = "done" /\ response'.success) =>
       \E i \in 1..Len(sandboxes') :
         /\ sandboxes'[i].sandboxId = response'.sandboxId
         /\ sandboxes'[i].status = "running"]_vars

\* the request did not pass cloneSchema
ValidationFailure == req # NoBody /\ CloneSchemaIssues(req) # {}
\* the request ended in its clone and inspection, before install and launch
CloneFailure ==
  /\ "clone" \in Range(remoteLog)
  /\ "install" \notin Range(remoteLog)
  /\ "launch" \notin Range(remoteLog)
  /\ installExit = "none"

\* C24: a failure response to an authenticated caller has status 400 when
\* validation or the clone failed, also when the clone failed by throwing,
\* and 500 otherwise.
C24_FailureStatus ==
  (pc = "done" /\ ~response.success /\ response.status # 401) =>
    response.status = IF ValidationFailure \/ CloneFailure THEN 400 ELSE 500

StepRank(call) ==
  CASE call = "clone" -> 1 [] call = "inspect" -> 2 [] call = "install" -> 3
    [] call = "launch" -> 4 [] OTHER -> 0
\* the clone exited non-zero or timed out, or the inspection ran and failed
CloneOrInspectionFailed ==
  \/ cloneExit \in {"nonzero", "timeout"}
  \/ "inspect" \in Range(remoteLog) /\ pc # "inspect" /\ ~projectInfo.success

\* C25: the remote steps of a request run in the order clone, inspection,
\* install, launch, and after a failed clone or inspection neither install
\* nor launch runs.
C25_StepsInOrder ==
  /\ \A i, j \in 1..Len(remoteLog) :
       (i < j /\ StepRank(remoteLog[i]) > 0 /\ StepRank(remoteLog[j]) > 0) =>
         StepRank(remoteLog[i]) < StepRank(remoteLog[j])
  /\ CloneOrInspectionFailed =>
       ("install" \notin Range(remoteLog) /\ "launch" \notin Range(remoteLog))

Attempts(call) == Cardinality({k \in 1..Len(remoteLog) : remoteLog[k] = call})

\* C26: in one request each remote call is attempted at most once.
C26_NoSecondAttempt ==
  \A call \in {"create", "attach", "clone", "inspect", "install", "launch", "close"} :
    Attempts(call) <= 1

\* the command of the first of dev, start, serve that is declared
Preferred(declared) ==
  LET Priority == <<"dev", "start", "serve">>
      Command == [dev |-> "npm run dev", start |-> "npm start", serve |-> "npm run serve"]
      Declared == {k \in 1..3 : Priority[k] \in declared}
  IN IF Declared = {} THEN None
     ELSE Command[Priority[CHOOSE k \in Declared : \A l \in Declared : k <= l]]

\* C28: the launch script that read the manifest launches the command of the
\* first declared script in the order dev, start, serve, none when none is
\* declared, and starts at most one process.
C28_LaunchPriority ==
  (pc = "done" /\ launch.outcome \in {"started", "died", "launchError", "noScript"}) =>
    /\ launch.command = Preferred(scripts[sandbox])
    /\ (launch.outcome = "noScript") = (scripts[sandbox] \cap ScriptNames = {})
    /\ launch.processes <= 1
    /\ launch.processes = 1 => launch.command # None

\* start and serve are declared, dev is not: npm start was launched
C28_Witness ==
  /\ pc = "done"
  /\ launch.outcome = "started"
  /\ scripts[sandbox] = {"start", "serve"}
  /\ launch.command = "npm start"
  /\ launch.processes = 1

\* ------------------------------------------ claims: calls on one record
RaceOps == {"updateSandboxStatus", "updateSandboxActivity", "stopSandbox", "reaperStop"}
\* the step applies a call to the record the call before it was applied to
SecondCallStep ==
  /\ StoreCallStep \/ ReaperStopStep
  /\ lastOp.ok /\ lastOp.op \in RaceOps
  /\ lastOp'.ok /\ lastOp'.op \in RaceOps
  /\ lastOp'.id = lastOp.id
WritesStatus(call) == call.op # "updateSandboxActivity"
StatusWritten(call) == IF call.op = "updateSandboxStatus" THEN call.arg ELSE "stopped"
WritesDeadline(call) == call.op = "updateSandboxActivity"

\* C29: each call is applied in one step, and after two calls on one record
\* each of status, lastActiveAt and autoStopAt holds what the later of the
\* calls that write the field wrote; the other records are as they were.
C29_LastWriterWins ==
  [][SecondCallStep =>
       \A i \in Docs :
         IF sandboxes[i]._id # lastOp'.id THEN sandboxes'[i] = sandboxes[i]
         ELSE /\ sandboxes'[i].lastActiveAt = lastOp'.at
              /\ sandboxes'[i].status =
                   IF WritesStatus(lastOp') THEN StatusWritten(lastOp')
                   ELSE IF WritesStatus(lastOp) THEN StatusWritten(lastOp)
                   ELSE sandboxes[i].status
              /\ sandboxes'[i].autoStopAt =
                   IF WritesDeadline(lastOp') THEN lastOp'.at + GraceWindow
                   ELSE IF WritesDeadline(lastOp) THEN lastOp.at + GraceWindow
                   ELSE sandboxes[i].autoStopAt]_vars

\* a touch came between the reaper's query and its stop: the record is
\* stopped and keeps the deadline the touch wrote
C29_Witness ==
  /\ lastOp.op = "reaperStop"
  /\ lastOp.ok
  /\ sandboxes[DocOf(lastOp.id)].status = "stopped"
  /\ sandboxes[DocOf(lastOp.id)].lastActiveAt = lastOp.at
  /\ sandboxes[DocOf(lastOp.id)].autoStopAt = lastOp.at + GraceWindow

\* C30: createSandbox writes status creating, startedAt = lastActiveAt = now
\* and autoStopAt = now + 15 minutes, and no call changes the startedAt,
\* userId or sandboxId of a record that exists.
C30_CreateAndFrame ==
  /\ [](lastOp.op = "createSandbox" =>
          /\ sandboxes[DocOf(lastOp.id)].status = "creating"
          /\ sandboxes[DocOf(lastOp.id)].startedAt = lastOp.at
          /\ sandboxes[DocOf(lastOp.id)].lastActiveAt = lastOp.at
          /\ sandboxes[DocOf(lastOp.id)].autoStopAt = lastOp.at + GraceWindow)
  /\ [][\A i \in Docs :
          /\ sandboxes'[i].startedAt = sandboxes[i].startedAt
          /\ sandboxes'[i].userId = sandboxes[i].userId
          /\ sandboxes'[i].sandboxId = sandboxes[i].sandboxId
          /\ sandboxes'[i]._id = sandboxes[i]._id]_vars

\* a record created at one time was set running and then stopped later on
C30_Witness ==
  /\ lastOp.op = "stopSandbox"
  /\ lastOp.ok
  /\ sandboxes[DocOf(lastOp.id)].status = "stopped"
  /\ sandboxes[DocOf(lastOp.id)].startedAt < lastOp.at
  /\ sandboxes[DocOf(lastOp.id)].autoStopAt = sandboxes[DocOf(lastOp.id)].startedAt + GraceWindow

\* C31: the URL inside the clone command differs from the gitUrl of the
\* request only when the request has isPrivate true and carries an
\* accessToken; for every other combination of the two the command holds
\* the gitUrl exactly as the request supplied it.
C31_RewriteOnlyPrivateWithToken ==
  cloneUrl # <<>> =>
    /\ cloneUrl # req.gitUrl => (req.isPrivate /\ req.accessToken # None)
    /\ ~(req.isPrivate /\ req.accessToken # None) => cloneUrl = req.gitUrl

C31_Witness ==
  /\ "clone" \in Range(remoteLog)
  /\ ~req.isPrivate
  /\ req.accessToken = "tokA"
  /\ cloneUrl = req.gitUrl

\* ------------------------------------------- claims: touch and the query
\* the record is as a touch at lastActiveAt left it: any other write to it at
\* a later reading of the clock moves lastActiveAt off autoStopAt - 15 minutes
AsTouched(i) ==
  /\ sandboxes[i].status = "running"
  /\ sandboxes[i].autoStopAt = sandboxes[i].lastActiveAt + GraceWindow
\* the step is a getSandboxesToAutoStop query
QueryStep == lastOp'.op = "getSandboxesToAutoStop" /\ sandboxes' = sandboxes

\* C32: a touch at time t leaves the record with lastActiveAt = t and
\* autoStopAt = t + 15 minutes, and a getSandboxesToAutoStop evaluated at a
\* time <= t + 15 minutes does not return a running record that is still as
\* the touch left it.
C32_TouchedNotReturned ==
  /\ []((lastOp.op = "updateSandboxActivity" /\ lastOp.ok) =>
          /\ sandboxes[DocOf(lastOp.id)].lastActiveAt = lastOp.at
          /\ sandboxes[DocOf(lastOp.id)].autoStopAt = lastOp.at + GraceWindow)
  /\ [][QueryStep =>
         \A i \in Docs :
           (AsTouched(i) /\ lastOp'.at <= sandboxes[i].lastActiveAt + GraceWindow) =>
             sandboxes[i]._id \notin lastOp'.ids]_vars

\* a record started at 0 was touched at 2 while running; the query at
\* 15 minutes + 1 returned nothing
C32_Witness ==
  /\ lastOp.op = "getSandboxesToAutoStop"
  /\ lastOp.at = GraceWindow + 1
  /\ lastOp.ids = {}
  /\ \E i \in Docs :
       /\ sandboxes[i].status = "running"
       /\ sandboxes[i].startedAt = 0
       /\ sandboxes[i].lastActiveAt = 2
       /\ sandboxes[i].autoStopAt = 2 + GraceWindow

\* C33: the reaper's stop marks a record stopped only if the record is
\* running and its autoStopAt is in the past when the stop is applied, also
\* when a touch of the same sandboxId came after the reaper's query.
C33_ReaperStopsOnlyExpired ==
  [][ReaperStopStep =>
       \A i \in Docs :
         (sandboxes'[i] # sandboxes[i] /\ sandboxes'[i].status = "stopped") =>
           Expired(i)]_vars

\* C34: a url stored on a record changes only in a call that supplies a url:
\* no step takes a record that has a url to a record without one.
C34_UrlKeptWithoutArg ==
  [][\A i \in Docs :
       (sandboxes[i].url # NoUrl /\ sandboxes'[i].url # sandboxes[i].url) =>
         sandboxes'[i].url # NoUrl]_vars

\* the step is an updateSandboxActivity call
TouchStep == StoreCallStep /\ lastOp'.op = "updateSandboxActivity"

\* C35: an updateSandboxActivity call changes no record's status or url: on
\* the record it finds it writes lastActiveAt and autoStopAt and nothing else,
\* whatever the status of the record, and it leaves every other record as it
\* was.
C35_TouchKeepsStatusAndUrl ==
  [][TouchStep =>
       /\ Len(sandboxes') = Len(sandboxes)
       /\ \A i \in Docs :
            /\ sandboxes'[i].status = sandboxes[i].status
            /\ sandboxes'[i].url = sandboxes[i].url
            /\ sandboxes'[i] = [sandboxes[i] EXCEPT
                                 !.lastActiveAt = sandboxes'[i].lastActiveAt,
                                 !.autoStopAt = sandboxes'[i].autoStopAt]]_vars

\* a stopped record with a url was touched after the clock had moved: it is
\* still stopped, has its url, and carries the new deadline
C35_Witness ==
  /\ lastOp.op = "updateSandboxActivity"
  /\ lastOp.ok
  /\ lastOp.at > 0
  /\ sandboxes[DocOf(lastOp.id)].status \in {"stopped", "error"}
  /\ sandboxes[DocOf(lastOp.id)].url # NoUrl
  /\ sandboxes[DocOf(lastOp.id)].lastActiveAt = lastOp.at
  /\ sandboxes[DocOf(lastOp.id)].autoStopAt = lastOp.at + GraceWindow

\* --------------------------------------------- claims: close and session
\* the request ended in a failure response after it had the sandbox handle
FailedWithHandle == sandbox # None /\ ~response.success

\* C36: when a request has been answered, sandbox.close() has been called iff
\* the answer is a failure given after the handle was acquired, so never on a
\* success response, and it has been called at most once.
C36_CloseIffFailureOnce ==
  pc = "done" =>
    /\ (closeCalls >= 1) = FailedWithHandle
    /\ closeCalls <= 1

\* the step receives a request for which getSession gives null
NoSessionStep == requests' = requests + 1 /\ session' = "none"

\* C37: a request without a session is answered 401 in the step that
\* receives it: no body has been read or validated, no create, attach,
\* run-command or close has been attempted, and the remote sandboxes are as
\* they were.
C37_NoSessionNoEffect ==
  /\ []((requests > 0 /\ session = "none") =>
          /\ pc = "done"
          /\ response.status = 401
          /\ response.details = {}
          /\ req = NoBody
          /\ remoteLog = <<>>
          /\ closeCalls = 0)
  /\ [][NoSessionStep => <<remote, dir, scripts>>' = <<remote, dir, scripts>>]_vars

\* the second request, without a session, is answered 401 while the sandbox
\* the first request created is still alive
C37_Witness ==
  /\ requests = 2
  /\ session = "none"
  /\ response.status = 401
  /\ \E s \in SandboxIds : remote[s] = "alive"

\* ------------------------------------------------- claims: deleteProject
\* the document refers to a sandbox document that is not in the table
Dangling(c) == c.sandboxId # NoRef /\ \A d \in Range(sandboxes) : d._id # c.sandboxId

\* C38: when deleteProject has completed, no fileSnapshots or chatHistory
\* document refers to a sandbox document that is not in the sandboxes table.
C38_DeleteProjectNoDangling ==
  lastOp.op = "deleteProject" =>
    \A c \in Range(fileSnapshots) \cup Range(chatHistory) : ~Dangling(c)

\* ------------------------------------ claims: subscriptions and users
\* the step is a createSubscription call
SubscriptionStep == calls' = calls + 1 /\ ledgerOp'.op = "createSubscription"
Subs == 1..Len(subscriptions)

\* C39: at most one subscription document carries a given
\* polarSubscriptionId, and a createSubscription call for an id that is in
\* the table writes tier, status and period on the document that carries it,
\* returns its _id and leaves its userId and createdAt, and every other
\* document, as they were; a call for a new id appends one document.
C39_SubscriptionUpsert ==
  /\ [](\A i, j \in Subs :
          subscriptions[i].polarSubscriptionId = subscriptions[j].polarSubscriptionId
            => i = j)
  /\ [][SubscriptionStep =>
         IF \E i \in Subs : subscriptions[i].polarSubscriptionId = ledgerOp'.key
         THEN /\ Len(subscriptions') = Len(subscriptions)
              /\ \A i \in Subs :
                   IF subscriptions[i].polarSubscriptionId # ledgerOp'.key
                   THEN subscriptions'[i] = subscriptions[i]
                   ELSE /\ ledgerOp'.id = subscriptions[i]._id
                        /\ subscriptions'[i].userId = subscriptions[i].userId
                        /\ subscriptions'[i].createdAt = subscriptions[i].createdAt
                        /\ subscriptions'[i].tier = ledgerOp'.plan.tier
                        /\ subscriptions'[i].status = ledgerOp'.plan.status
                        /\ subscriptions'[i].currentPeriodStart
                             = ledgerOp'.plan.currentPeriodStart
                        /\ subscriptions'[i].currentPeriodEnd
                             = ledgerOp'.plan.currentPeriodEnd
         ELSE /\ Len(subscriptions') = Len(subscriptions) + 1
              /\ \A i \in Subs : subscriptions'[i] = subscriptions[i]
              /\ subscriptions'[Len(subscriptions')].polarSubscriptionId = ledgerOp'.key]_vars

\* a call by another user, later, for an id in the table: one document, with
\* the first caller's userId and createdAt and the second call's plan
C39_Witness ==
  /\ ledgerOp.op = "createSubscription"
  /\ Len(subscriptions) = 1
  /\ subscriptions[1].userId # ledgerOp.userId
  /\ subscriptions[1].createdAt < ledgerOp.at
  /\ subscriptions[1].updatedAt = ledgerOp.at
  /\ subscriptions[1].tier = "pro"
  /\ ledgerOp.plan.tier = "pro"
  /\ ledgerOp.id = subscriptions[1]._id

\* the step is a createUser call
UserStep == calls' = calls + 1 /\ ledgerOp'.op = "createUser"

\* C40: at most one user document carries a given email, and a createUser
\* call for an email that is in the table fails with an error and leaves the
\* users table as it was.
C40_EmailUnique ==
  /\ [](\A i, j \in 1..Len(users) : users[i].email = users[j].email => i = j)
  /\ [][UserStep =>
         IF \E i \in 1..Len(users) : users[i].email = ledgerOp'.key
         THEN ~ledgerOp'.ok /\ ledgerOp'.error # "" /\ users' = users
         ELSE /\ ledgerOp'.ok
              /\ Len(users') = Len(users) + 1
              /\ users'[Len(users')].email = ledgerOp'.key
              /\ \A i \in 1..Len(users) : users'[i] = users[i]]_vars

\* a second createUser for an email in the table, with another profile,
\* failed and the one document is the first call's
C40_Witness ==
  /\ ledgerOp.op = "createUser"
  /\ ~ledgerOp.ok
  /\ ledgerOp.error = UserExistsError
  /\ Len(users) = 1
  /\ users[1].email = ledgerOp.key
  /\ users[1].name # ledgerOp.profile.name
  /\ users[1].createdAt < ledgerOp.at

====
